---- MODULE Spec2Model ----
(***************************************************************************)
(* Model of ducklake-bootstrap: bootstrap_ducklake.py (config resolution,  *)
(* session opening, catalog attach, TPC-H load) and run_tpch_queries.py    *)
(* (cross-engine validation loop).                                         *)
(*                                                                         *)
(* Strings whose structure matters (prefix, data root) are sequences of    *)
(* tokens; "s3://" and the bucket name are single tokens, "/" and "a" are  *)
(* characters.  Values of a result table are in units of 1e-6.             *)
(* The engine (DuckDB) is modelled by the state its statements act on: the *)
(* secrets, the attached aliases and the active namespace of the session,  *)
(* plus the log of every statement handed to it.                           *)
(***************************************************************************)
EXTENDS Integers, Sequences, FiniteSets, TLC

VARIABLES
    cmd,                 \* which entry point runs in this process
    cfgAccessKey,        \* config document: storage.access_key
    cfgSecretKey,        \* config document: storage.secret_key
    envAccessKey,        \* environment: MINIO_ACCESS_KEY
    envSecretKey,        \* environment: MINIO_SECRET_KEY
    envSecretAccessKey,  \* environment: MINIO_SECRET_ACCESS_KEY
    prefix,              \* config document: storage.prefix
    cachePresent,        \* os.path.exists("tpch-sf{scale}.duckdb")
    requested,           \* validate_tpch's query_ids argument
    pc,                  \* position of the process
    raisedAt,            \* where the exception that ended the process was raised
    storage,             \* the StorageMinIO built by from_dict (credentials)
    stmts,               \* statements handed to the lakehouse session, in order
    secrets,             \* names of the secrets the session holds
    attached,            \* aliases attached in the session
    current,             \* the session's active namespace
    attachCalls,         \* completed or started calls of attach_ducklake
    refOpen,             \* validate: the reference session is open
    query_ids,           \* validate: the id sequence the loop iterates
    i,                   \* validate: index of the current id in query_ids
    df_ref,              \* validate: reference result of the current id
    df_dl,               \* validate: lakehouse result of the current id
    verdict,             \* the (match, reason) of the last classification
    summary,             \* validate: the run-level result list
    artifacts,           \* validate: the csv dumps written
    summaryWritten       \* validate: validation_summary.csv was written

vars == <<cmd, cfgAccessKey, cfgSecretKey, envAccessKey, envSecretKey,
          envSecretAccessKey, prefix, cachePresent, requested, pc, raisedAt,
          storage, stmts, secrets, attached, current, attachCalls, refOpen,
          query_ids, i, df_ref, df_dl, verdict, summary, artifacts,
          summaryWritten>>

inputVars == <<cmd, cfgAccessKey, cfgSecretKey, envAccessKey, envSecretKey,
               envSecretAccessKey, prefix, cachePresent, requested>>

sessionVars == <<stmts, secrets, attached, current>>

loopVars == <<query_ids, i, df_ref, df_dl, verdict, summary, artifacts,
              summaryWritten>>

(***************************************************************************)
(* Bounds                                                                  *)
(***************************************************************************)
\* longest storage.prefix drawn
MaxLen == 3
\* the canonical query set 1..22 of the source, cut to 1..NumQueries
NumQueries == 2
\* most rows of a result table drawn for the classification
MaxRows == 1
\* calls of attach_ducklake in one process
MaxAttachCalls == 2

(***************************************************************************)
(* Python values                                                           *)
(***************************************************************************)
\* a key that the config document does not hold
ABSENT == "<absent>"
\* Python's None
NONE == "<None>"

Truthy(v) == v \notin {ABSENT, NONE, ""}

\* dict.get(key, default): the default only when the key is absent
DictGet(v, default) == IF v = ABSENT THEN default ELSE v

\* a or b
PyOr(a, b) == IF Truthy(a) THEN a ELSE b

\* f"{v}"
Format(v) == IF v = NONE THEN "None" ELSE v

CfgVals == {ABSENT, NONE, "", "cfgkey"}
EnvVals == {NONE, "", "envkey"}

Chars == {"/", "a"}
RECURSIVE SeqsUpTo(_, _)
SeqsUpTo(S, n) ==
    IF n = 0 THEN {<<>>}
    ELSE LET shorter == SeqsUpTo(S, n - 1)
         IN  shorter \cup {Append(s, c) : s \in shorter, c \in S}
Prefixes == SeqsUpTo(Chars, MaxLen)

Bucket == "bucket"
Alias == "my_ducklake"
SecretName == "minio"

(***************************************************************************)
(* StorageMinIO.data_path and str.strip                                    *)
(***************************************************************************)
RECURSIVE LStrip(_, _)
LStrip(s, c) == IF s # <<>> /\ Head(s) = c THEN LStrip(Tail(s), c) ELSE s

RECURSIVE RStrip(_, _)
RStrip(s, c) ==
    IF s # <<>> /\ s[Len(s)] = c THEN RStrip(SubSeq(s, 1, Len(s) - 1), c) ELSE s

Strip(s, c) == RStrip(LStrip(s, c), c)

data_path(bucket, p) ==
    LET stripped == Strip(p, "/")
    IN  IF stripped # <<>>
        THEN <<"s3://", bucket, "/">> \o stripped \o <<"/">>
        ELSE <<"s3://", bucket, "/">>

\* open_ducklake's own data root: f"s3://{bucket}/{prefix}"
open_ducklake_data_path(bucket, p) == <<"s3://", bucket, "/">> \o p

(***************************************************************************)
(* Statements                                                              *)
(***************************************************************************)
Stmt(op, name, keyId, secret, path) ==
    [op |-> op, name |-> name, key_id |-> keyId, secret |-> secret, path |-> path]

Plain(op, name) == Stmt(op, name, "", "", <<>>)

\* StorageMinIO.create_secret_sql: the key pair is embedded only when both are set
create_secret_sql(st, name) ==
    IF Truthy(st.access_key) /\ Truthy(st.secret_key)
    THEN Stmt("CREATE OR REPLACE SECRET", name, st.access_key, st.secret_key, <<>>)
    ELSE Stmt("CREATE OR REPLACE SECRET", name, "", "", <<>>)

attach_sql(alias, dataPath) == Stmt("ATTACH", alias, "", "", dataPath)

\* open_duckdb_for_session: connect, then the four INSTALL/LOAD statements
OpenSessionStmts ==
    << Plain("CONNECT", "metadata"), Plain("INSTALL LOAD", "httpfs"),
       Plain("INSTALL LOAD", "aws"), Plain("INSTALL LOAD", "ducklake"),
       Plain("INSTALL LOAD", "tpch") >>

\* open_ducklake: connect, then three INSTALL/LOAD statements
OpenDucklakeStmts ==
    << Plain("CONNECT", ":memory:"), Plain("INSTALL LOAD", "httpfs"),
       Plain("INSTALL LOAD", "aws"), Plain("INSTALL LOAD", "ducklake") >>

(***************************************************************************)
(* AppConfig.from_dict                                                     *)
(***************************************************************************)
ResolveAccessKey(cfgv, envv) == DictGet(cfgv, envv)

ResolveSecretKey(cfgv, envv, envv2) == DictGet(cfgv, PyOr(envv, envv2))

NoStorage == [access_key |-> NONE, secret_key |-> NONE]

Raise(where) ==
    /\ pc' = "raised"
    /\ raisedAt' = where

\* load_config + AppConfig.from_dict of bootstrap_ducklake.py
FromDict ==
    /\ pc = "start"
    /\ cmd \in {"attach", "attach_twice", "load_tpch"}
    /\ LET ak == ResolveAccessKey(cfgAccessKey, envAccessKey)
           sk == ResolveSecretKey(cfgSecretKey, envSecretKey, envSecretAccessKey)
       IN  IF ~Truthy(ak) \/ ~Truthy(sk)
           THEN /\ Raise("from_dict")
                /\ UNCHANGED storage
           ELSE /\ storage' = [access_key |-> ak, secret_key |-> sk]
                /\ pc' = "configured"
                /\ UNCHANGED raisedAt
    /\ UNCHANGED <<inputVars, sessionVars, loopVars, attachCalls, refOpen>>

(***************************************************************************)
(* The engine session                                                      *)
(***************************************************************************)
Issue(stmt) == stmts' = Append(stmts, stmt)

\* ATTACH ... AS alias, as attach_sql and generate_tpch_and_load write it (no
\* IF NOT EXISTS, no OR REPLACE): the engine rejects an alias already in use.
\* The rule is DuckDB's; the statement text is the source's.
AttachAllowed(alias) == alias \notin attached

\* USE alias, DETACH DATABASE alias, COPY FROM DATABASE alias: the alias must be attached
AliasKnown(alias) == alias \in attached

\* open_duckdb_for_session
OpenSession ==
    /\ pc = "configured"
    /\ stmts' = stmts \o OpenSessionStmts
    /\ pc' = "opened"
    /\ UNCHANGED <<inputVars, loopVars, raisedAt, storage, secrets, attached,
                   current, attachCalls, refOpen>>

\* attach_ducklake is entered: os.makedirs(md_dir, exist_ok=True).  cmd_attach and
\* cmd_load_tpch call it once; "attach_twice" calls it again on the same session.
AttachBegin ==
    /\ \/ pc = "opened"
       \/ /\ pc = "attached"
          /\ cmd = "attach_twice"
          /\ attachCalls < MaxAttachCalls
    /\ attachCalls' = attachCalls + 1
    /\ pc' = "ensure_secret"
    /\ UNCHANGED <<inputVars, loopVars, sessionVars, raisedAt, storage, refOpen>>

\* ensure_minio_secret: CREATE OR REPLACE SECRET minio (...)
EnsureSecret ==
    /\ pc = "ensure_secret"
    /\ Issue(create_secret_sql(storage, SecretName))
    /\ \E ok \in BOOLEAN :
          IF ok
          THEN /\ secrets' = secrets \cup {SecretName}
               /\ pc' = "attach_stmt"
               /\ UNCHANGED raisedAt
          ELSE /\ Raise("ensure_secret")
               /\ UNCHANGED secrets
    /\ UNCHANGED <<inputVars, loopVars, storage, attached, current, attachCalls,
                   refOpen>>

\* the statements attach_ducklake issues after the secret
AttachStmtOf(p) == attach_sql(Alias, data_path(Bucket, p))

\* con.execute(attach_sql)
AttachStmt ==
    /\ pc = "attach_stmt"
    /\ Issue(AttachStmtOf(prefix))
    /\ IF AttachAllowed(Alias)
       THEN \E ok \in BOOLEAN :
               IF ok
               THEN /\ attached' = attached \cup {Alias}
                    /\ pc' = "use_stmt"
                    /\ UNCHANGED raisedAt
               ELSE /\ Raise("attach")
                    /\ UNCHANGED attached
       ELSE /\ Raise("attach: alias in use")
            /\ UNCHANGED attached
    /\ UNCHANGED <<inputVars, loopVars, storage, secrets, current, attachCalls,
                   refOpen>>

\* con.execute(f"USE {alias};")
UseStmt ==
    /\ pc = "use_stmt"
    /\ Issue(Plain("USE", Alias))
    /\ \E ok \in BOOLEAN :
          IF ok /\ AliasKnown(Alias)
          THEN /\ current' = Alias
               /\ pc' = "attached"
               /\ UNCHANGED raisedAt
          ELSE /\ Raise("use")
               /\ UNCHANGED current
    /\ UNCHANGED <<inputVars, loopVars, storage, secrets, attached, attachCalls,
                   refOpen>>

\* cmd_attach after attach_ducklake: CREATE TABLE IF NOT EXISTS bootstrap_check
SanityTable ==
    /\ pc = "attached"
    /\ cmd = "attach"
    /\ Issue(Plain("CREATE TABLE IF NOT EXISTS", "bootstrap_check"))
    /\ pc' = "done"
    /\ UNCHANGED <<inputVars, loopVars, raisedAt, storage, secrets, attached,
                   current, attachCalls, refOpen>>

(***************************************************************************)
(* generate_tpch_and_load                                                  *)
(***************************************************************************)
\* if not os.path.exists(local_db): download, else use the cached file
LoaderFirstStep(present) == IF present THEN "attach_src" ELSE "download"

\* the loader called on the opened session, before attach_ducklake
LoaderEntryBeforeAttach == "opened"

\* cmd_load_tpch calls generate_tpch_and_load after attach_ducklake has returned
LoaderEntry == "attached"

CheckCache ==
    /\ pc = LoaderEntry
    /\ cmd = "load_tpch"
    /\ pc' = LoaderFirstStep(cachePresent)
    /\ UNCHANGED <<inputVars, loopVars, sessionVars, raisedAt, storage,
                   attachCalls, refOpen>>

\* urllib.request.urlretrieve(url, local_db)
Download ==
    /\ pc = "download"
    /\ \E ok \in BOOLEAN :
          IF ok
          THEN /\ cachePresent' = TRUE
               /\ pc' = "attach_src"
               /\ UNCHANGED raisedAt
          ELSE /\ Raise("download")
               /\ UNCHANGED cachePresent
    /\ UNCHANGED <<cmd, cfgAccessKey, cfgSecretKey, envAccessKey, envSecretKey,
                   envSecretAccessKey, prefix, requested, loopVars, sessionVars,
                   storage, attachCalls, refOpen>>

\* con.execute(f"ATTACH '{local_db}' AS tpch_src;")
AttachSrc ==
    /\ pc = "attach_src"
    /\ Issue(Plain("ATTACH", "tpch_src"))
    /\ IF AttachAllowed("tpch_src")
       THEN \E ok \in BOOLEAN :
               IF ok
               THEN /\ attached' = attached \cup {"tpch_src"}
                    /\ pc' = "copy"
                    /\ UNCHANGED raisedAt
               ELSE /\ Raise("attach_src")
                    /\ UNCHANGED attached
       ELSE /\ Raise("attach: alias in use")
            /\ UNCHANGED attached
    /\ UNCHANGED <<inputVars, loopVars, storage, secrets, current, attachCalls,
                   refOpen>>

\* con.execute(f"COPY FROM DATABASE tpch_src TO {ducklake_alias};")
CopyStmt ==
    /\ pc = "copy"
    /\ Issue(Plain("COPY FROM DATABASE", "tpch_src"))
    /\ \E ok \in BOOLEAN :
          IF ok /\ AliasKnown("tpch_src") /\ AliasKnown(Alias)
          THEN /\ pc' = "detach"
               /\ UNCHANGED raisedAt
          ELSE Raise("copy")
    /\ UNCHANGED <<inputVars, loopVars, storage, secrets, attached, current,
                   attachCalls, refOpen>>

\* con.execute("DETACH DATABASE tpch_src;"): local to the session, it fails only
\* when the alias is not attached
DetachStmt ==
    /\ pc = "detach"
    /\ Issue(Plain("DETACH DATABASE", "tpch_src"))
    /\ IF AliasKnown("tpch_src")
       THEN /\ attached' = attached \ {"tpch_src"}
            /\ pc' = "loaded"
            /\ UNCHANGED raisedAt
       ELSE /\ Raise("detach")
            /\ UNCHANGED attached
    /\ UNCHANGED <<inputVars, loopVars, storage, secrets, current, attachCalls,
                   refOpen>>

CountedTables == <<"region", "nation", "customer", "orders", "lineitem">>

\* cmd_load_tpch after the load: SELECT COUNT(*) per table, each in its own try
CountTables ==
    /\ pc = "loaded"
    /\ stmts' = stmts \o [k \in 1..Len(CountedTables) |->
                              Plain("SELECT COUNT", CountedTables[k])]
    /\ pc' = "done"
    /\ UNCHANGED <<inputVars, loopVars, raisedAt, storage, secrets, attached,
                   current, attachCalls, refOpen>>

NoTable == [cols |-> <<>>, rows |-> <<>>]
NoVerdict == [match |-> FALSE, reason |-> <<"(none)">>]

InitCommon ==
    /\ pc = "start"
    /\ raisedAt = "nowhere"
    /\ storage = NoStorage
    /\ stmts = <<>>
    /\ secrets = {}
    /\ attached = {}
    /\ current = "main"
    /\ attachCalls = 0
    /\ refOpen = FALSE
    /\ query_ids = <<>>
    /\ i = 0
    /\ df_ref = NoTable
    /\ df_dl = NoTable
    /\ verdict = NoVerdict
    /\ summary = <<>>
    /\ artifacts = {}
    /\ summaryWritten = FALSE

InitBootstrap ==
    /\ cmd \in {"attach", "attach_twice", "load_tpch"}
    /\ cfgAccessKey \in CfgVals
    /\ cfgSecretKey \in CfgVals
    /\ envAccessKey \in EnvVals
    /\ envSecretKey \in EnvVals
    /\ envSecretAccessKey \in EnvVals
    /\ prefix \in Prefixes
    /\ cachePresent \in BOOLEAN
    /\ requested = <<>>
    /\ InitCommon

NextBootstrap ==
    \/ FromDict
    \/ OpenSession
    \/ AttachBegin
    \/ EnsureSecret
    \/ AttachStmt
    \/ UseStmt
    \/ SanityTable
    \/ CheckCache
    \/ Download
    \/ AttachSrc
    \/ CopyStmt
    \/ DetachStmt
    \/ CountTables

SpecBootstrap == InitBootstrap /\ [][NextBootstrap]_vars

(***************************************************************************)
(* run_tpch_queries.py: result tables and their classification             *)
(***************************************************************************)
\* atol=1e-6, in units of 1e-6
Atol == 1
\* rtol is left at the default of assert_frame_equal, 1e-5 = 1 / RtolInverse
RtolInverse == 100000

Abs(x) == IF x < 0 THEN -x ELSE x

\* |a - b| <= atol + rtol * |b|
Close(a, b) == RtolInverse * Abs(a - b) <= RtolInverse * Atol + Abs(b)

ColRank(c) == IF c = "a" THEN 1 ELSE 2

\* df.sort_index(axis=1): the columns in name order, the cells moved with them
sort_index(T) ==
    LET n == Len(T.cols)
        idx(k) == CHOOSE j \in 1..n :
                     Cardinality({m \in 1..n : ColRank(T.cols[m]) < ColRank(T.cols[j])}) = k - 1
    IN  [cols |-> [k \in 1..n |-> T.cols[idx(k)]],
         rows |-> [r \in 1..Len(T.rows) |-> [k \in 1..n |-> T.rows[r][idx(k)]]]]

\* pd.testing.assert_frame_equal(..., atol=1e-6, check_dtype=False, check_like=True)
\* does not raise AssertionError
frame_equal(A, B) ==
    /\ A.cols = B.cols
    /\ Len(A.rows) = Len(B.rows)
    /\ \A r \in 1..Len(A.rows) : \A k \in 1..Len(A.cols) : Close(A.rows[r][k], B.rows[r][k])

Verdict(match, reason) == [match |-> match, reason |-> reason]

\* the row-count rule tried before the column rule
ClassifyRowsFirst(A, B) ==
    IF Len(A.rows) # Len(B.rows)
    THEN Verdict(FALSE, <<"Row count mismatch", Len(A.rows), Len(B.rows)>>)
    ELSE IF A.cols # B.cols
    THEN Verdict(FALSE, <<"Column mismatch">>)
    ELSE IF ~frame_equal(sort_index(A), sort_index(B))
    THEN Verdict(FALSE, <<"Data mismatch">>)
    ELSE Verdict(TRUE, <<"">>)

\* validate_tpch, the if / elif / else over df_ref and df_dl
Classify(A, B) ==
    IF A.cols # B.cols
    THEN Verdict(FALSE, <<"Column mismatch">>)
    ELSE IF Len(A.rows) # Len(B.rows)
    THEN Verdict(FALSE, <<"Row count mismatch", Len(A.rows), Len(B.rows)>>)
    ELSE IF ~frame_equal(sort_index(A), sort_index(B))
    THEN Verdict(FALSE, <<"Data mismatch">>)
    ELSE Verdict(TRUE, <<"">>)

Vals == {0, 1, 2}
ColumnLists == {<<"a">>, <<"a", "b">>, <<"b", "a">>}
RowsOf(cols) == SeqsUpTo([1..Len(cols) -> Vals], MaxRows)
Tables == UNION {{[cols |-> c, rows |-> rs] : rs \in RowsOf(c)} : c \in ColumnLists}

\* the tables the engines return in the validation loop: one pair per outcome
SampleTables ==
    { [cols |-> <<"a", "b">>, rows |-> << <<0, 0>> >>],
      [cols |-> <<"b", "a">>, rows |-> << <<0, 0>> >>],
      [cols |-> <<"a", "b">>, rows |-> << <<1, 0>> >>],
      [cols |-> <<"a", "b">>, rows |-> << <<2, 0>> >>],
      [cols |-> <<"a", "b">>, rows |-> << >>] }

\* the classification alone, on a drawn pair of frames
ClassifyFrames ==
    /\ pc = "frames"
    /\ verdict' = Classify(df_ref, df_dl)
    /\ pc' = "classified"
    /\ UNCHANGED <<inputVars, sessionVars, raisedAt, storage, attachCalls, refOpen,
                   query_ids, i, df_ref, df_dl, summary, artifacts, summaryWritten>>

InitClassify ==
    /\ cmd = "classify"
    /\ cfgAccessKey = "cfgkey"
    /\ cfgSecretKey = "cfgkey"
    /\ envAccessKey = NONE
    /\ envSecretKey = NONE
    /\ envSecretAccessKey = NONE
    /\ prefix = <<>>
    /\ cachePresent = TRUE
    /\ requested = <<>>
    /\ pc = "frames"
    /\ raisedAt = "nowhere"
    /\ storage = NoStorage
    /\ stmts = <<>>
    /\ secrets = {}
    /\ attached = {}
    /\ current = "main"
    /\ attachCalls = 0
    /\ refOpen = FALSE
    /\ query_ids = <<>>
    /\ i = 0
    /\ df_ref \in Tables
    /\ df_dl \in Tables
    /\ verdict = NoVerdict
    /\ summary = <<>>
    /\ artifacts = {}
    /\ summaryWritten = FALSE

NextClassify == ClassifyFrames

SpecClassify == InitClassify /\ [][NextClassify]_vars

(***************************************************************************)
(* run_tpch_queries.py: open_ducklake, open_reference, validate_tpch       *)
(***************************************************************************)
\* range(1, 23), cut to 1..NumQueries
DefaultIds == [k \in 1..NumQueries |-> k]

NoDuplicates(s) == \A a, b \in 1..Len(s) : s[a] = s[b] => a = b

RequestedInputs == {s \in SeqsUpTo(1..NumQueries, NumQueries) : NoDuplicates(s)}

\* f"Q{q:02d}"
Label(q) == <<"Q", q \div 10, q % 10>>

Entry(q, match, reason) == [query |-> Label(q), match |-> match, reason |-> reason]

\* the secret statement of open_ducklake: .get(key, 'minioadmin') formatted into the text
open_ducklake_secret(ak, sk) ==
    Stmt("CREATE OR REPLACE SECRET", SecretName,
         Format(DictGet(ak, "minioadmin")), Format(DictGet(sk, "minioadmin")), <<>>)

\* validate_tpch is entered: if not query_ids: query_ids = range(1, 23)
ValidateBegin ==
    /\ pc = "start"
    /\ cmd = "validate"
    /\ query_ids' = IF requested = <<>> THEN DefaultIds ELSE requested
    /\ pc' = "open_ducklake"
    /\ UNCHANGED <<inputVars, sessionVars, raisedAt, storage, attachCalls, refOpen,
                   i, df_ref, df_dl, verdict, summary, artifacts, summaryWritten>>

\* open_ducklake: connect and load the extensions
OpenDucklakeConnect ==
    /\ pc = "open_ducklake"
    /\ stmts' = stmts \o OpenDucklakeStmts
    /\ pc' = "dl_secret"
    /\ UNCHANGED <<inputVars, loopVars, raisedAt, storage, secrets, attached,
                   current, attachCalls, refOpen>>

\* open_ducklake: CREATE OR REPLACE SECRET minio (...)
OpenDucklakeSecret ==
    /\ pc = "dl_secret"
    /\ Issue(open_ducklake_secret(cfgAccessKey, cfgSecretKey))
    /\ \E ok \in BOOLEAN :
          IF ok
          THEN /\ secrets' = secrets \cup {SecretName}
               /\ pc' = "dl_attach"
               /\ UNCHANGED raisedAt
          ELSE /\ Raise("open_ducklake")
               /\ UNCHANGED secrets
    /\ UNCHANGED <<inputVars, loopVars, storage, attached, current, attachCalls,
                   refOpen>>

\* open_ducklake: ATTACH 'ducklake:{db_path}' AS {alias} (DATA_PATH '{data_path}')
OpenDucklakeAttach ==
    /\ pc = "dl_attach"
    /\ Issue(attach_sql(Alias, open_ducklake_data_path(Bucket, prefix)))
    /\ IF AttachAllowed(Alias)
       THEN \E ok \in BOOLEAN :
               IF ok
               THEN /\ attached' = attached \cup {Alias}
                    /\ pc' = "dl_use"
                    /\ UNCHANGED raisedAt
               ELSE /\ Raise("open_ducklake")
                    /\ UNCHANGED attached
       ELSE /\ Raise("attach: alias in use")
            /\ UNCHANGED attached
    /\ UNCHANGED <<inputVars, loopVars, storage, secrets, current, attachCalls,
                   refOpen>>

\* open_ducklake: USE {alias}
OpenDucklakeUse ==
    /\ pc = "dl_use"
    /\ Issue(Plain("USE", Alias))
    /\ \E ok \in BOOLEAN :
          IF ok /\ AliasKnown(Alias)
          THEN /\ current' = Alias
               /\ pc' = "open_reference"
               /\ UNCHANGED raisedAt
          ELSE /\ Raise("open_ducklake")
               /\ UNCHANGED current
    /\ UNCHANGED <<inputVars, loopVars, storage, secrets, attached, attachCalls,
                   refOpen>>

\* open_reference, then results_dir.mkdir(exist_ok=True) and summary = []
OpenReference ==
    /\ pc = "open_reference"
    /\ IF cachePresent
       THEN /\ refOpen' = TRUE
            /\ pc' = "loop"
            /\ UNCHANGED raisedAt
       ELSE /\ Raise("open_reference")
            /\ UNCHANGED refOpen
    /\ UNCHANGED <<inputVars, sessionVars, loopVars, storage, attachCalls>>

\* for q in query_ids: the next id, and its query text fetched from tpch_queries().
\* The fetch is the first statement of the loop body, before the try.
FetchQuery ==
    /\ pc = "loop"
    /\ i < Len(query_ids)
    /\ i' = i + 1
    /\ df_ref' = NoTable
    /\ df_dl' = NoTable
    /\ \E ok \in BOOLEAN :
          IF ok
          THEN /\ pc' = "exec_ref"
               /\ UNCHANGED raisedAt
          ELSE Raise("fetch")
    /\ UNCHANGED <<inputVars, sessionVars, storage, attachCalls, refOpen, query_ids,
                   verdict, summary, artifacts, summaryWritten>>

\* except Exception as e: summary.append({... "match": False, "reason": str(e)})
Caught(text) ==
    /\ summary' = Append(summary, Entry(query_ids[i], FALSE, <<text>>))
    /\ pc' = "loop"

\* ref_con.execute("USE tpch_ref;"); df_ref = ref_con.execute(sql).fetch_df()
ExecRef ==
    /\ pc = "exec_ref"
    /\ \/ /\ \E t \in SampleTables : df_ref' = t
          /\ pc' = "exec_dl"
          /\ UNCHANGED summary
       \/ /\ Caught("reference execution error")
          /\ UNCHANGED df_ref
    /\ UNCHANGED <<inputVars, sessionVars, raisedAt, storage, attachCalls, refOpen,
                   query_ids, i, df_dl, verdict, artifacts, summaryWritten>>

\* ducklake_con.execute(f"USE {alias};"); df_dl = ducklake_con.execute(sql).fetch_df()
ExecDl ==
    /\ pc = "exec_dl"
    /\ \/ /\ \E t \in SampleTables : df_dl' = t
          /\ current' = Alias
          /\ pc' = "classify"
          /\ UNCHANGED summary
       \/ /\ Caught("lakehouse execution error")
          /\ UNCHANGED <<df_dl, current>>
    /\ UNCHANGED <<inputVars, stmts, secrets, attached, raisedAt, storage,
                   attachCalls, refOpen, query_ids, i, df_ref, verdict, artifacts,
                   summaryWritten>>

\* artifacts are dumped whatever the verdict
AfterVerdictAlwaysDump(v) == "write_ref"

\* if not match: dump both frames
AfterVerdict(v) == IF v.match THEN "loop" ELSE "write_ref"

\* the classification, summary.append(...) and the test of `match`
ClassifyAndAppend ==
    /\ pc = "classify"
    /\ verdict' = Classify(df_ref, df_dl)
    /\ summary' = Append(summary, Entry(query_ids[i], verdict'.match, verdict'.reason))
    /\ pc' = AfterVerdict(verdict')
    /\ UNCHANGED <<inputVars, sessionVars, raisedAt, storage, attachCalls, refOpen,
                   query_ids, i, df_ref, df_dl, artifacts, summaryWritten>>

\* df_ref.to_csv(results_dir / f"q{q:02d}_ref.csv"), inside the try
WriteRef ==
    /\ pc = "write_ref"
    /\ \/ /\ artifacts' = artifacts \cup {<<Label(query_ids[i]), "ref">>}
          /\ pc' = "write_dl"
          /\ UNCHANGED summary
       \/ /\ Caught("artifact write error")
          /\ UNCHANGED artifacts
    /\ UNCHANGED <<inputVars, sessionVars, raisedAt, storage, attachCalls, refOpen,
                   query_ids, i, df_ref, df_dl, verdict, summaryWritten>>

\* df_dl.to_csv(results_dir / f"q{q:02d}_ducklake.csv"), inside the try
WriteDl ==
    /\ pc = "write_dl"
    /\ \/ /\ artifacts' = artifacts \cup {<<Label(query_ids[i]), "ducklake">>}
          /\ pc' = "loop"
          /\ UNCHANGED summary
       \/ /\ Caught("artifact write error")
          /\ UNCHANGED artifacts
    /\ UNCHANGED <<inputVars, sessionVars, raisedAt, storage, attachCalls, refOpen,
                   query_ids, i, df_ref, df_dl, verdict, summaryWritten>>

\* pd.DataFrame(summary).to_csv(results_dir / "validation_summary.csv")
WriteSummary ==
    /\ pc = "loop"
    /\ i = Len(query_ids)
    /\ summaryWritten' = TRUE
    /\ pc' = "done"
    /\ UNCHANGED <<inputVars, sessionVars, raisedAt, storage, attachCalls, refOpen,
                   query_ids, i, df_ref, df_dl, verdict, summary, artifacts>>

\* every config with one query id, and every id sequence with one config
InitValidate ==
    /\ cmd = "validate"
    /\ envAccessKey = NONE
    /\ envSecretKey = NONE
    /\ envSecretAccessKey = NONE
    /\ cachePresent \in BOOLEAN
    /\ \/ /\ cfgAccessKey \in CfgVals
          /\ cfgSecretKey \in CfgVals
          /\ prefix \in Prefixes
          /\ requested = <<1>>
       \/ /\ cfgAccessKey = "cfgkey"
          /\ cfgSecretKey = "cfgkey"
          /\ prefix = <<"a", "/">>
          /\ requested \in RequestedInputs
    /\ InitCommon

NextValidate ==
    \/ ValidateBegin
    \/ OpenDucklakeConnect
    \/ OpenDucklakeSecret
    \/ OpenDucklakeAttach
    \/ OpenDucklakeUse
    \/ OpenReference
    \/ FetchQuery
    \/ ExecRef
    \/ ExecDl
    \/ ClassifyAndAppend
    \/ WriteRef
    \/ WriteDl
    \/ WriteSummary

SpecValidate == InitValidate /\ [][NextValidate]_vars

(***************************************************************************)
(* Properties                                                              *)
(***************************************************************************)
Ops(log) == [k \in 1..Len(log) |-> log[k].op]

Labels(ids) == [k \in 1..Len(ids) |-> Label(ids[k])]

HasResult(L) == \E e \in 1..Len(summary) : summary[e].query = L

MismatchTexts == {"Column mismatch", "Row count mismatch", "Data mismatch"}

\* the summary holds a shape or data mismatch for label L
ShapeMismatch(L) ==
    \E e \in 1..Len(summary) :
        /\ summary[e].query = L
        /\ ~summary[e].match
        /\ summary[e].reason[1] \in MismatchTexts

\* a dump of label L could not be written
WriteFailed(L) ==
    \E e \in 1..Len(summary) :
        /\ summary[e].query = L
        /\ summary[e].reason = <<"artifact write error">>

BothDumps(L) == {<<L, "ref">>, <<L, "ducklake">>} \subseteq artifacts
NoDump(L) == {<<L, "ref">>, <<L, "ducklake">>} \cap artifacts = {}

\* C1: once validate_tpch has entered its loop, no failure on one id ends the
\* run: when the process has ended, every requested id has a result and the
\* run-level summary has been written.
C1_FailureIsolated ==
    (refOpen /\ pc \in {"done", "raised"}) =>
        /\ summaryWritten
        /\ \A k \in 1..Len(query_ids) : HasResult(Label(query_ids[k]))

\* C2: when validate_tpch finishes, the run-level result list holds exactly one
\* result per requested id, in the order of the requested sequence.
C2_OneResultPerId ==
    pc = "done" => [e \in 1..Len(summary) |-> summary[e].query] = Labels(query_ids)

LoaderExited ==
    /\ cmd = "load_tpch"
    /\ \/ pc \in {"loaded", "done"}
       \/ /\ pc = "raised"
          /\ raisedAt \in {"download", "attach_src", "copy", "detach"}

\* C3: after generate_tpch_and_load has returned or raised, tpch_src is not
\* attached.
C3_SrcDetachedOnExit == LoaderExited => "tpch_src" \notin attached

HasAccessKey == Truthy(cfgAccessKey) \/ Truthy(envAccessKey)
HasSecretKey ==
    Truthy(cfgSecretKey) \/ Truthy(envSecretKey) \/ Truthy(envSecretAccessKey)

\* C4: from_dict raises the config error exactly when the access key or the
\* secret key has a non-empty value neither in the config document nor in the
\* environment; otherwise it takes the config value, else the environment's.
C4_CredentialPrecedence ==
    (cmd \in {"attach", "attach_twice", "load_tpch"} /\ pc # "start") =>
        /\ (raisedAt = "from_dict") <=> (~HasAccessKey \/ ~HasSecretKey)
        /\ raisedAt # "from_dict" =>
              storage.access_key =
                  (IF Truthy(cfgAccessKey) THEN cfgAccessKey ELSE envAccessKey)

\* C5: a statement reaches an engine session only with both credentials
\* non-empty, and every secret statement carries the resolved, non-defaulted
\* key pair.
C5_CredentialsAtSessionOpen ==
    stmts # <<>> =>
        /\ HasAccessKey /\ HasSecretKey
        /\ \A k \in 1..Len(stmts) :
              stmts[k].op = "CREATE OR REPLACE SECRET" =>
                  /\ stmts[k].key_id \notin {"", "None", "minioadmin"}
                  /\ stmts[k].secret \notin {"", "None", "minioadmin"}

DownloadAborted == cmd = "load_tpch" /\ pc = "raised" /\ raisedAt = "download"

\* C6 as stated: when the download of load-tpch fails, no engine statement at
\* all has been executed before the abort.
C6_NoEngineBeforeDownloadAbort == DownloadAborted => stmts = <<>>

LoaderStmt(st) ==
    \/ st.op \in {"COPY FROM DATABASE", "DETACH DATABASE"}
    \/ st.op = "ATTACH" /\ st.name = "tpch_src"

\* C6 (amended): when the download of load-tpch fails, no statement of the
\* loader (ATTACH tpch_src, COPY, DETACH) has been executed; the session's
\* connect, INSTALL/LOAD, CREATE SECRET, catalog ATTACH and USE all have.
C6_NoLoaderStmtBeforeDownloadAbort ==
    DownloadAborted =>
        /\ \A k \in 1..Len(stmts) : ~LoaderStmt(stmts[k])
        /\ Ops(stmts) = <<"CONNECT", "INSTALL LOAD", "INSTALL LOAD", "INSTALL LOAD",
                          "INSTALL LOAD", "CREATE OR REPLACE SECRET", "ATTACH", "USE">>
        /\ current = Alias

C6_Witness == DownloadAborted /\ Len(stmts) = 8 /\ ~cachePresent

\* C7: a second attach_ducklake on the same session does not raise because of
\* the first, and leaves one secret, the alias attached and selected.
C7_AttachIdempotent ==
    attachCalls >= 2 =>
        /\ raisedAt # "attach: alias in use"
        /\ pc = "attached" =>
              (secrets = {SecretName} /\ attached = {Alias} /\ current = Alias)

\* C8: every lakehouse attach statement, of the bootstrap path and of the
\* validation path, binds s3://{bucket}/{trimmed prefix}/ (s3://{bucket}/ when
\* the trimmed prefix is empty).
C8_SameDataRoot ==
    \A k \in 1..Len(stmts) :
        (stmts[k].op = "ATTACH" /\ stmts[k].name = Alias) =>
            stmts[k].path = data_path(Bucket, prefix)

CellBeyondTolerance(A, B) ==
    \E r \in 1..Len(A.rows) : \E k \in 1..Len(A.cols) :
        ~Close(A.rows[r][k], B.rows[r][k])

\* C10: the rules apply in fixed priority: differing column-name sequences give
\* "Column mismatch" whatever the rows; else differing row counts give "Row
\* count mismatch (a vs b)"; else a cell beyond the tolerance gives "Data
\* mismatch"; and matched=true, with an empty reason, exactly when no rule fires.
C10_ClassificationPriority ==
    pc = "classified" =>
        LET colsDiffer == df_ref.cols # df_dl.cols
            rowsDiffer == Len(df_ref.rows) # Len(df_dl.rows)
        IN  /\ colsDiffer => verdict = Verdict(FALSE, <<"Column mismatch">>)
            /\ (~colsDiffer /\ rowsDiffer) =>
                  verdict = Verdict(FALSE, <<"Row count mismatch",
                                             Len(df_ref.rows), Len(df_dl.rows)>>)
            /\ (~colsDiffer /\ ~rowsDiffer /\ CellBeyondTolerance(df_ref, df_dl)) =>
                  verdict = Verdict(FALSE, <<"Data mismatch">>)
            /\ verdict.match <=>
                  (~colsDiffer /\ ~rowsDiffer /\ ~CellBeyondTolerance(df_ref, df_dl))
            /\ verdict.match => verdict.reason = <<"">>

C10_Witness ==
    /\ pc = "classified"
    /\ df_ref.cols = <<"a", "b">>
    /\ df_dl.cols = <<"b", "a">>
    /\ Len(df_ref.rows) # Len(df_dl.rows)
    /\ verdict = Verdict(FALSE, <<"Column mismatch">>)

====
